---- MODULE Spec2Model ----
(***************************************************************************)
(* Model of the ISO document navigator: the process-document edge function *)
(* (text extraction, section detection, chunking, chunk replacement), the  *)
(* Admin page's upload and delete handlers, and the chat edge function     *)
(* (full-text search, ILIKE fallback, context assembly, generation call).  *)
(* Texts are TLA+ strings; a character is a string of length 1.            *)
(***************************************************************************)
EXTENDS Integers, Sequences, FiniteSets, TLC

(***************************************************************************)
(* Characters and the JavaScript string primitives the handlers use.       *)
(***************************************************************************)
At(s, i) == IF i >= 1 /\ i <= Len(s) THEN SubSeq(s, i, i) ELSE ""

IsSpace(c) == c \in {" ", "\n", "\t", "\r"}

IsDigit(c) == c \in {"0", "1", "2", "3", "4", "5", "6", "7", "8", "9"}

UpperAZ == "ABCDEFGHIJKLMNOPQRSTUVWXYZ"

LowerAZ == "abcdefghijklmnopqrstuvwxyz"

IsUpperAZ(c) == Len(c) = 1 /\ \E i \in 1..Len(UpperAZ) : At(UpperAZ, i) = c

IsLowerAZ(c) == Len(c) = 1 /\ \E i \in 1..Len(LowerAZ) : At(LowerAZ, i) = c

SetMin(S) == CHOOSE x \in S : \A y \in S : x <= y

SetMax(S) == CHOOSE x \in S : \A y \in S : x >= y

\* Last index of the run of whitespace that starts at i (i - 1 when s[i] is
\* not whitespace): the greedy match of \s+ or \s* at i.
SpaceRunEnd(s, i) ==
    (CHOOSE j \in i..(Len(s) + 1) :
        ~IsSpace(At(s, j)) /\ \A k \in i..(j - 1) : IsSpace(At(s, k))) - 1

\* Last index of the run of digits that starts at i: the greedy match of \d+.
DigitRunEnd(s, i) ==
    (CHOOSE j \in i..(Len(s) + 1) :
        ~IsDigit(At(s, j)) /\ \A k \in i..(j - 1) : IsDigit(At(s, k))) - 1

\* String.prototype.trim
Trim(s) ==
    LET keep == {i \in 1..Len(s) : ~IsSpace(At(s, i))}
    IN  IF keep = {} THEN "" ELSE SubSeq(s, SetMin(keep), SetMax(keep))

\* String.prototype.split(regex) for a regex that never matches the empty
\* string: m[i] is the length of the regex's match starting at index i, or 0.
\* The pieces between the leftmost non-overlapping matches, in order.
RECURSIVE SplitFrom(_, _, _)
SplitFrom(s, m, p) ==
    LET cand == {q \in p..Len(s) : m[q] > 0}
    IN  IF cand = {}
        THEN <<SubSeq(s, p, Len(s))>>
        ELSE LET q == SetMin(cand)
             IN  <<SubSeq(s, p, q - 1)>> \o SplitFrom(s, m, q + m[q])

\* Array.prototype.join
RECURSIVE Join(_, _)
Join(parts, sep) ==
    IF parts = <<>> THEN ""
    ELSE IF Len(parts) = 1 THEN parts[1]
    ELSE parts[1] \o sep \o Join(Tail(parts), sep)

\* Array.prototype.filter for "length > n"
RECURSIVE LongerThan(_, _)
LongerThan(parts, n) ==
    IF parts = <<>> THEN <<>>
    ELSE (IF Len(parts[1]) > n THEN <<parts[1]>> ELSE <<>>)
         \o LongerThan(Tail(parts), n)

\* /\s+/ : a maximal run of whitespace starting at i
WhitespaceMatch(s) ==
    [i \in 1..Len(s) |->
        IF IsSpace(At(s, i)) THEN SpaceRunEnd(s, i) - i + 1 ELSE 0]

(***************************************************************************)
(* process-document: extractTextFromPDF                                    *)
(***************************************************************************)
\* /\(([^)]+)\)/ at index i: "(" , one or more characters other than ")",
\* then ")". The index of the closing parenthesis, or 0 when there is no match.
ParenClose(s, i) ==
    IF At(s, i) # "(" THEN 0
    ELSE LET closing == {j \in (i + 1)..Len(s) : At(s, j) = ")"}
         IN  IF closing = {} THEN 0
             ELSE IF SetMin(closing) = i + 1 THEN 0 ELSE SetMin(closing)

\* String.prototype.replace(/xy/g, rep) for a two-character pattern
RECURSIVE ReplaceAll2(_, _, _)
ReplaceAll2(s, pat, rep) ==
    LET hits == {i \in 1..(Len(s) - 1) : SubSeq(s, i, i + 1) = pat}
    IN  IF hits = {} THEN s
        ELSE LET i == SetMin(hits)
             IN  SubSeq(s, 1, i - 1) \o rep
                 \o ReplaceAll2(SubSeq(s, i + 2, Len(s)), pat, rep)

Unescape(content) ==
    ReplaceAll2(ReplaceAll2(ReplaceAll2(ReplaceAll2(ReplaceAll2(ReplaceAll2(
        content, "\\n", "\n"), "\\r", "\r"), "\\t", "\t"),
        "\\(", "("), "\\)", ")"), "\\\\", "\\")

AccentedLower == "àâäéèêëïîôùûüç"

\* /[a-zA-Z0-9àâäéèêëïîôùûüç]/.test(content)
HasAlnum(content) ==
    \E i \in 1..Len(content) :
        LET c == At(content, i)
        IN  \/ IsLowerAZ(c) \/ IsUpperAZ(c) \/ IsDigit(c)
            \/ \E k \in 1..Len(AccentedLower) : At(AccentedLower, k) = c

\* The while loop over parenRegex.exec(text), scanning from index p
RECURSIVE ParenLiterals(_, _)
ParenLiterals(text, p) ==
    LET cand == {i \in p..Len(text) : ParenClose(text, i) > 0}
    IN  IF cand = {} THEN <<>>
        ELSE LET i == SetMin(cand)
                 j == ParenClose(text, i)
                 content == Unescape(SubSeq(text, i + 1, j - 1))
             IN  (IF Len(content) > 2 /\ HasAlnum(content)
                  THEN <<content>> ELSE <<>>)
                 \o ParenLiterals(text, j + 1)

\* /\(([^)]+)\)\s*Tj/ at index i: the index of the "j" ending the match, or 0
TjEnd(block, i) ==
    LET j == ParenClose(block, i)
    IN  IF j = 0 THEN 0
        ELSE LET e == SpaceRunEnd(block, j + 1)
             IN  IF SubSeq(block, e + 1, e + 2) = "Tj" /\ e + 2 <= Len(block)
                 THEN e + 2 ELSE 0

\* The while loop over tjRegex.exec(block), scanning from index p
RECURSIVE TjLiterals(_, _)
TjLiterals(block, p) ==
    LET cand == {i \in p..Len(block) : TjEnd(block, i) > 0}
    IN  IF cand = {} THEN <<>>
        ELSE LET i == SetMin(cand)
                 tjContent == SubSeq(block, i + 1, ParenClose(block, i) - 1)
             IN  (IF Len(tjContent) > 1 THEN <<tjContent>> ELSE <<>>)
                 \o TjLiterals(block, TjEnd(block, i) + 1)

\* The while loop over btEtRegex.exec(text) = /BT\s*([\s\S]*?)\s*ET/g,
\* scanning from index p: a block runs from a "BT" to the first "ET" after it.
RECURSIVE BtEtLiterals(_, _)
BtEtLiterals(text, p) ==
    LET isBT(i) == i + 1 <= Len(text) /\ SubSeq(text, i, i + 1) = "BT"
        isET(i) == i + 1 <= Len(text) /\ SubSeq(text, i, i + 1) = "ET"
        cand == {i \in p..Len(text) :
                    isBT(i) /\ \E e \in (i + 2)..Len(text) : isET(e)}
    IN  IF cand = {} THEN <<>>
        ELSE LET i == SetMin(cand)
                 e == SetMin({k \in (i + 2)..Len(text) : isET(k)})
                 block == Trim(SubSeq(text, i + 2, e - 1))
             IN  TjLiterals(block, 1) \o BtEtLiterals(text, e + 2)

extractTextFromPDF(text) ==
    LET textParts == ParenLiterals(text, 1) \o BtEtLiterals(text, 1)
        joined == Join(textParts, " ")
    IN  Trim(Join(SplitFrom(joined, WhitespaceMatch(joined), 1), " "))

(***************************************************************************)
(* process-document: extractSections                                       *)
(***************************************************************************)
CharsPerPage == 3000

\* Math.floor(a / b): a page estimate that starts at 0
FloorDiv(a, b) == a \div b

\* Math.ceil(a / b) for a >= 0, b > 0
CeilDiv(a, b) == (a + b - 1) \div b

\* /\n|(?<=\.)\s+(?=[A-Z])/ : a newline, or the whitespace between a full
\* stop and an ASCII capital letter
LineSeparator(s) ==
    [i \in 1..Len(s) |->
        IF At(s, i) = "\n" THEN 1
        ELSE IF IsSpace(At(s, i)) /\ At(s, i - 1) = "."
                /\ IsUpperAZ(At(s, SpaceRunEnd(s, i) + 1))
             THEN SpaceRunEnd(s, i) - i + 1
             ELSE 0]

\* Extends a label ending at index e by further ".digits" groups: (?:\.\d+)*
RECURSIVE LabelEnd(_, _)
LabelEnd(line, e) ==
    IF At(line, e + 1) = "." /\ IsDigit(At(line, e + 2))
    THEN LabelEnd(line, DigitRunEnd(line, e + 2))
    ELSE e

\* line.match(/^(\d+(?:\.\d+)*)\s+/): the captured label, "" for no match
sectionMatch(line) ==
    IF ~IsDigit(At(line, 1)) THEN ""
    ELSE LET e == LabelEnd(line, DigitRunEnd(line, 1))
         IN  IF IsSpace(At(line, e + 1)) THEN SubSeq(line, 1, e) ELSE ""

\* sectionMatch[1].split(".")[0]
FirstPart(label) ==
    LET dots == {i \in 1..Len(label) : At(label, i) = "."}
    IN  IF dots = {} THEN label ELSE SubSeq(label, 1, SetMin(dots) - 1)

\* The for loop over lines, from line k on, with the loop's variables
RECURSIVE SectionLoop(_, _, _, _, _, _, _)
SectionLoop(lines, k, currentSection, currentSubsection, currentContent, charCount, sections) ==
    IF k > Len(lines)
    THEN IF Trim(currentContent) # ""
         THEN Append(sections, [section |-> currentSection,
                                subsection |-> currentSubsection,
                                content |-> Trim(currentContent),
                                page |-> CeilDiv(charCount, CharsPerPage)])
         ELSE sections
    ELSE LET line == lines[k]
             count == charCount + Len(line)
             estimatedPage == CeilDiv(count, CharsPerPage)
             label == sectionMatch(line)
         IN  IF label # ""
             THEN SectionLoop(lines, k + 1, FirstPart(label), label, line, count,
                      IF Trim(currentContent) # ""
                      THEN Append(sections, [section |-> currentSection,
                                             subsection |-> currentSubsection,
                                             content |-> Trim(currentContent),
                                             page |-> estimatedPage])
                      ELSE sections)
             ELSE SectionLoop(lines, k + 1, currentSection, currentSubsection,
                      currentContent \o " " \o line, count, sections)

\* A variant that leaves the text before the first heading without a label
extractSectionsUnlabelled(text) ==
    SectionLoop(SplitFrom(text, LineSeparator(text), 1), 1, "", "", "", 0, <<>>)

extractSections(text) ==
    SectionLoop(SplitFrom(text, LineSeparator(text), 1), 1, "1", "", "", 0, <<>>)

(***************************************************************************)
(* process-document: chunkText                                             *)
(***************************************************************************)
DefaultMaxChunkSize == 1500

\* /(?<=[.!?])\s+/ : the whitespace that follows a sentence terminator
SentenceSeparator(s) ==
    [i \in 1..Len(s) |->
        IF IsSpace(At(s, i)) /\ At(s, i - 1) \in {".", "!", "?"}
        THEN SpaceRunEnd(s, i) - i + 1 ELSE 0]

\* The for loop over sentences, from sentence k on
RECURSIVE ChunkLoop(_, _, _, _, _)
ChunkLoop(sentences, k, currentChunk, chunks, maxChunkSize) ==
    IF k > Len(sentences)
    THEN IF Trim(currentChunk) # "" THEN Append(chunks, Trim(currentChunk))
         ELSE chunks
    ELSE LET sentence == sentences[k]
         IN  IF Len(currentChunk) + Len(sentence) > maxChunkSize
                /\ currentChunk # ""
             THEN ChunkLoop(sentences, k + 1, sentence,
                            Append(chunks, Trim(currentChunk)), maxChunkSize)
             ELSE ChunkLoop(sentences, k + 1,
                            currentChunk
                              \o (IF currentChunk # "" THEN " " ELSE "")
                              \o sentence,
                            chunks, maxChunkSize)

\* A packer that starts the chunk it opens with the last sentence of the
\* chunk it closes
RECURSIVE ChunkLoopOverlap(_, _, _, _, _)
ChunkLoopOverlap(sentences, k, currentChunk, chunks, maxChunkSize) ==
    IF k > Len(sentences)
    THEN IF Trim(currentChunk) # "" THEN Append(chunks, Trim(currentChunk))
         ELSE chunks
    ELSE LET sentence == sentences[k]
         IN  IF Len(currentChunk) + Len(sentence) > maxChunkSize
                /\ currentChunk # ""
             THEN ChunkLoopOverlap(sentences, k + 1,
                                   sentences[k - 1] \o " " \o sentence,
                                   Append(chunks, Trim(currentChunk)),
                                   maxChunkSize)
             ELSE ChunkLoopOverlap(sentences, k + 1,
                                   currentChunk
                                     \o (IF currentChunk # "" THEN " " ELSE "")
                                     \o sentence,
                                   chunks, maxChunkSize)

chunkTextOverlap(text, maxChunkSize) ==
    ChunkLoopOverlap(SplitFrom(text, SentenceSeparator(text), 1), 1, "", <<>>,
                     maxChunkSize)

chunkText(text, maxChunkSize) ==
    ChunkLoop(SplitFrom(text, SentenceSeparator(text), 1), 1, "", <<>>,
              maxChunkSize)

(***************************************************************************)
(* The corpus: documents, stored files and the row-level-security policies *)
(***************************************************************************)
DocIds == {"d1", "d2"}

Handlers == {"h1", "h2"}

\* Total number of client operations in a behaviour: uploads, process-document
\* requests and document deletions
MaxOps == 2

RECURSIVE Repeat(_, _)
Repeat(s, n) == IF n = 0 THEN "" ELSE s \o Repeat(s, n - 1)

\* A sentence of exactly 100 characters, terminator and following blank included
Sentence100 == Repeat("processus ", 9) \o "qualite. "

\* Number of one-line sections of the file many.txt
ManySections == 51

\* The files of the iso-documents bucket: decoded content by path. An upload
\* stores its file under a fresh path; the model names the path by the file.
FileContent ==
    [ short |-> "Norme ISO 9001.",
      iso   |-> "4.1 Scope\nThis applies to widgets. 4.2 Exclusions\n"
                \o "This excludes gadgets.",
      long  |-> "7 Support\n" \o Repeat(Sentence100, 16)
                \o "\n8 Realisation\nLes activites sont planifiees.",
      many  |-> Repeat("1 A\n", ManySections),
      scan  |-> "%PDF-1.4 BT (5.1 Leadership) Tj ET BT (La direction doit "
                \o "demontrer son engagement envers la qualite.) Tj ET" ]

FilePaths == DOMAIN FileContent

\* Policies granted to the anon role by the two migrations, as <<table, command>>
AnonPolicies ==
    { <<"iso_documents", "SELECT">>, <<"iso_chunks", "SELECT">>,
      <<"iso_documents", "INSERT">>, <<"iso_documents", "UPDATE">>,
      <<"iso_chunks", "INSERT">>, <<"iso_chunks", "DELETE">> }

(***************************************************************************)
(* process-document: the serve handler up to the chunk list                *)
(***************************************************************************)
MinPdfTextLength == 100

\* A threshold below the length of the shortest stored file
MinTextLengthLowered == 50 - 40

MinTextLength == 50

batchSize == 50

\* let extractedText = extractTextFromPDF(buffer); raw text when shorter than 100
ExtractedText(content) ==
    LET pdf == extractTextFromPDF(content)
    IN  IF Len(pdf) < MinPdfTextLength THEN content ELSE pdf

\* The rows pushed for the chunks cs of one section, numbered from chunkIndex on
SectionRows(documentId, section, cs, chunkIndex) ==
    [k \in 1..Len(cs) |->
        [document_id |-> documentId, chunk_index |-> chunkIndex + k - 1,
         content |-> cs[k], section |-> section.section,
         subsection |-> section.subsection, page_number |-> section.page]]

\* for (const section of sections) ... allChunks.push(... chunkIndex++ ...)
RECURSIVE SectionsRows(_, _, _, _)
SectionsRows(documentId, sections, k, chunkIndex) ==
    IF k > Len(sections) THEN <<>>
    ELSE LET rows == SectionRows(documentId, sections[k],
                         chunkText(sections[k].content, DefaultMaxChunkSize),
                         chunkIndex)
         IN  rows \o SectionsRows(documentId, sections, k + 1,
                                  chunkIndex + Len(rows))

\* Fallback: chunk entire text, section "1", page++ per chunk
FallbackRows(documentId, extractedText) ==
    LET cs == chunkText(extractedText, DefaultMaxChunkSize)
    IN  [k \in 1..Len(cs) |->
            [document_id |-> documentId, chunk_index |-> k - 1,
             content |-> cs[k], section |-> "1", subsection |-> "",
             page_number |-> k]]

BuildAllChunks(documentId, extractedText) ==
    LET sections == extractSections(extractedText)
    IN  IF Len(sections) > 0
        THEN SectionsRows(documentId, sections, 1, 0)
        ELSE FallbackRows(documentId, extractedText)

\* The extracted text of every file and the chunk list of every request,
\* computed once
ExtractedTextOf == [f \in FilePaths |-> ExtractedText(FileContent[f])]

AllChunksOf ==
    [d \in DocIds |-> [f \in FilePaths |->
        BuildAllChunks(d, ExtractedTextOf[f])]]

(***************************************************************************)
(* State                                                                   *)
(***************************************************************************)
VARIABLES
    iso_documents,  \* table iso_documents: id -> [filename, processed]
    iso_chunks,     \* table iso_chunks: a set of rows; id is <<run, chunk_index>>
    ops,            \* number of client operations started so far
    pc,             \* per handler instance: position in process-document
    request,        \* per handler instance: the ProcessRequest being served
    run,            \* per handler instance: number of its current invocation
    inserted,       \* per handler instance: the loop variable i of the batch loop
    response,       \* per handler instance: the response it returned, or NoResponse
    before,         \* per handler instance: the document's rows when the request arrived
    succeeded,      \* the <<document, file>> pairs process-document reported success for
    adminPc,        \* Admin page: position in deleteDocument
    adminDoc,       \* Admin page: the document deleteDocument was called with
    toast,          \* Admin page: the kind of the last toast shown
    chat_messages,  \* table chat_messages: rows in insertion order
    apiKeySet,      \* chat: whether LOVABLE_API_KEY is configured
    chatPc,         \* chat handler: position
    chatRequest,    \* chat handler: the ChatRequest being served
    tiers,          \* chat handler: the searches issued so far and whether each failed
    relevantChunks, \* chat handler: the retrieved rows, in rank order
    context,        \* chat handler: the assembled context
    sources,        \* chat handler: the sources list
    prompt,         \* chat handler: the system prompt sent to the gateway
    gatewayCalls,   \* chat handler: number of calls of the generation gateway
    answer,         \* chat handler: the generated answer
    chatResponse,   \* chat handler: the response it returned, or NoResponse
    call,           \* a call of one of the functions on its own: name and arguments
    result,         \* the value that call returned, once it has returned
    useChat,        \* useChat: messages, isLoading, error and conversationId
    sends,          \* useChat: per invocation of sendMessage, its position and locals
    chat_conversations, \* table chat_conversations: rows in insertion order
    session         \* useChat: number of calls of newChat so far

ingestVars == <<iso_documents, iso_chunks, ops, pc, request, run,
                inserted, response, before, succeeded, adminPc, adminDoc, toast>>

chatVars == <<chat_messages, apiKeySet, chatPc, chatRequest, tiers,
              relevantChunks, context, sources, prompt, gatewayCalls,
              answer, chatResponse>>

callVars == <<call, result>>

hookVars == <<useChat, sends, chat_conversations, session>>

vars == <<ingestVars, chatVars, callVars, hookVars>>

NoCall == [fn |-> "none"]

NoResult == [returned |-> FALSE, value |-> <<>>]

\* No function is called on its own
NoCalls == call = NoCall /\ result = NoResult

\* Invocations of sendMessage and calls of newChat in a behaviour
MaxSends == 2

MaxNewChats == 1

SendIds == 1..MaxSends

\* JavaScript null where the other values are strings
null == "null"

\* pc and the locals content and convId; the session the invocation started
\* in, whether its insert created a conversation, and how it ended
NoSend == [pc |-> "idle", content |-> "", convId |-> null, session |-> 0,
           created |-> FALSE, outcome |-> "none"]

\* useState initial values; no invocation of sendMessage yet
HookIdle ==
    /\ useChat = [messages |-> <<>>, isLoading |-> FALSE, error |-> null,
                  conversationId |-> null]
    /\ sends = [i \in SendIds |-> NoSend]
    /\ chat_conversations = <<>>
    /\ session = 0

NoRequest == [documentId |-> "", filePath |-> ""]

NoResponse == [status |-> 0]

NoToast == "none"

IngestInit ==
    /\ iso_documents = [d \in {} |-> [filename |-> "", processed |-> FALSE]]
    /\ iso_chunks = {}
    /\ ops = 0
    /\ pc = [h \in Handlers |-> "idle"]
    /\ request = [h \in Handlers |-> NoRequest]
    /\ run = [h \in Handlers |-> 0]
    /\ inserted = [h \in Handlers |-> 0]
    /\ response = [h \in Handlers |-> NoResponse]
    /\ before = [h \in Handlers |-> {}]
    /\ succeeded = {}
    /\ adminPc = "idle"
    /\ adminDoc = ""
    /\ toast = NoToast

\* const allChunks of handler h: determined by the request it serves
allChunks(h) == AllChunksOf[request[h].documentId][request[h].filePath]

\* Rows of iso_chunks that belong to document d
ChunksOf(d) == {r \in iso_chunks : r.document_id = d}

\* The rows a handler inserts for positions from + 1 .. to of its chunk list
Batch(h, from, to) ==
    {[id |-> <<run[h], allChunks(h)[k].chunk_index>>] @@ allChunks(h)[k] :
        k \in (from + 1)..to}

Minimum(a, b) == IF a < b THEN a ELSE b

(***************************************************************************)
(* process-document: the serve handler, one action per awaited call        *)
(***************************************************************************)
\* A request reaches the edge function and a handler instance starts on it
StartRequest(h, documentId, filePath) ==
    /\ pc' = [pc EXCEPT ![h] = "download"]
    /\ request' = [request EXCEPT ![h] =
                      [documentId |-> documentId, filePath |-> filePath]]
    /\ ops' = ops + 1
    /\ run' = [run EXCEPT ![h] = ops + 1]
    /\ inserted' = [inserted EXCEPT ![h] = 0]
    /\ response' = [response EXCEPT ![h] = NoResponse]
    /\ before' = [before EXCEPT ![h] =
                     {r \in iso_chunks : r.document_id = documentId}]

\* A handler instance that is not serving a request
Free(h) == pc[h] \in {"idle", "done"}

\* A request sent to the edge function for a listed document and a stored file
Invoke(h, documentId, filePath) ==
    /\ Free(h)
    /\ h = CHOOSE x \in Handlers : Free(x)
    /\ documentId \in DOMAIN iso_documents
    /\ filePath \in FilePaths
    /\ ops < MaxOps
    /\ StartRequest(h, documentId, filePath)
    /\ UNCHANGED <<iso_documents, iso_chunks, succeeded, adminPc, adminDoc, toast>>
    /\ UNCHANGED chatVars
    /\ UNCHANGED <<callVars, hookVars>>

Respond(h, resp) ==
    /\ pc' = [pc EXCEPT ![h] = "done"]
    /\ response' = [response EXCEPT ![h] = resp]

ErrorResponse(message) == [status |-> 500, error |-> message]

\* Download the file, extract the text and build the chunk list
Download(h, downloadError) ==
    /\ pc[h] = "download"
    /\ IF downloadError
       THEN Respond(h, ErrorResponse("Failed to download file"))
       ELSE LET extractedText == ExtractedTextOf[request[h].filePath]
            IN  IF Len(extractedText) < MinTextLength
                THEN Respond(h, ErrorResponse("Could not extract meaningful text"))
                ELSE /\ pc' = [pc EXCEPT ![h] = "delete"]
                     /\ UNCHANGED response
    /\ UNCHANGED <<iso_documents, iso_chunks, ops, request, run,
                   inserted, adminPc, adminDoc, toast>>
    /\ UNCHANGED <<before, succeeded, chatVars>>
    /\ UNCHANGED <<callVars, hookVars>>

\* Delete existing chunks for this document; the result is not inspected
DeleteExisting(h, deleteError) ==
    /\ pc[h] = "delete"
    /\ iso_chunks' = IF deleteError THEN iso_chunks
                     ELSE iso_chunks \ ChunksOf(request[h].documentId)
    /\ pc' = [pc EXCEPT ![h] = "insert"]
    /\ UNCHANGED <<iso_documents, ops, request, run, inserted, response, adminPc, adminDoc, toast>>
    /\ UNCHANGED <<before, succeeded, chatVars>>
    /\ UNCHANGED <<callVars, hookVars>>

\* One iteration of the batch loop; the foreign key rejects an unknown document
InsertBatch(h, insertError) ==
    /\ pc[h] = "insert"
    /\ inserted[h] < Len(allChunks(h))
    /\ IF insertError \/ request[h].documentId \notin DOMAIN iso_documents
       THEN /\ Respond(h, ErrorResponse("Failed to insert chunks"))
            /\ UNCHANGED <<iso_chunks, inserted>>
       ELSE LET to == Minimum(inserted[h] + batchSize, Len(allChunks(h)))
            IN  /\ iso_chunks' = iso_chunks \cup Batch(h, inserted[h], to)
                /\ inserted' = [inserted EXCEPT ![h] = inserted[h] + batchSize]
                /\ UNCHANGED <<pc, response>>
    /\ UNCHANGED <<iso_documents, ops, request, run, adminPc, adminDoc, toast>>
    /\ UNCHANGED <<before, succeeded, chatVars>>
    /\ UNCHANGED <<callVars, hookVars>>

\* Update document as processed (result not inspected) and answer success
MarkProcessed(h, updateError) ==
    /\ pc[h] = "insert"
    /\ inserted[h] >= Len(allChunks(h))
    /\ LET d == request[h].documentId
       IN  iso_documents' =
               IF updateError \/ d \notin DOMAIN iso_documents
               THEN iso_documents
               ELSE [iso_documents EXCEPT ![d].processed = TRUE]
    /\ Respond(h, [status |-> 200, success |-> TRUE,
                   chunks_created |-> Len(allChunks(h))])
    /\ UNCHANGED <<iso_chunks, ops, request, run, inserted, adminPc, adminDoc, toast>>
    /\ succeeded' = succeeded \cup {<<request[h].documentId, request[h].filePath>>}
    /\ UNCHANGED <<before, chatVars>>
    /\ UNCHANGED <<callVars, hookVars>>

(***************************************************************************)
(* Admin page: handleFileUpload and deleteDocument                         *)
(***************************************************************************)
\* Upload to the bucket, create the document record, then processDocument
handleFileUpload(d, filePath, h, uploadError, docError) ==
    /\ d \notin DOMAIN iso_documents
    /\ filePath \in FilePaths
    /\ Free(h)
    /\ h = CHOOSE x \in Handlers : Free(x)
    /\ ops < MaxOps
    /\ IF uploadError
       THEN /\ toast' = "upload-error"
            /\ ops' = ops + 1
            /\ UNCHANGED <<iso_documents, pc, request, run, inserted,
                           response, before>>
       ELSE IF docError
       THEN /\ toast' = "upload-error"
            /\ ops' = ops + 1
            /\ UNCHANGED <<iso_documents, pc, request, run, inserted, response,
                           before>>
       ELSE /\ iso_documents' =
                   [x \in DOMAIN iso_documents \cup {d} |->
                       IF x = d THEN [filename |-> filePath, processed |-> FALSE]
                       ELSE iso_documents[x]]
            /\ toast' = "uploaded"
            /\ StartRequest(h, d, filePath)
    /\ UNCHANGED <<iso_chunks, adminPc, adminDoc>>
    /\ UNCHANGED <<succeeded, chatVars>>
    /\ UNCHANGED <<callVars, hookVars>>

\* deleteDocument up to the first awaited call: delete the chunks first
DeleteChunks(d, deleteError) ==
    /\ adminPc = "idle"
    /\ d \in DOMAIN iso_documents
    /\ ops < MaxOps
    /\ ops' = ops + 1
    /\ iso_chunks' = IF deleteError \/ <<"iso_chunks", "DELETE">> \notin AnonPolicies
                     THEN iso_chunks ELSE iso_chunks \ ChunksOf(d)
    /\ adminPc' = "document"
    /\ adminDoc' = d
    /\ UNCHANGED <<iso_documents, pc, request, run, inserted,
                   response, toast>>
    /\ UNCHANGED <<before, succeeded, chatVars>>
    /\ UNCHANGED <<callVars, hookVars>>

\* deleteDocument: delete the document record (rows the policies hide from
\* DELETE are skipped without an error; a deleted row cascades to its chunks)
DeleteDocumentRecord(deleteError) ==
    /\ adminPc = "document"
    /\ IF deleteError
       THEN /\ toast' = "delete-error"
            /\ UNCHANGED <<iso_documents, iso_chunks>>
       ELSE /\ toast' = "deleted"
            /\ IF <<"iso_documents", "DELETE">> \in AnonPolicies
               THEN /\ iso_documents' =
                          [x \in DOMAIN iso_documents \ {adminDoc} |->
                              iso_documents[x]]
                    /\ iso_chunks' = iso_chunks \ ChunksOf(adminDoc)
               ELSE UNCHANGED <<iso_documents, iso_chunks>>
    /\ adminPc' = "idle"
    /\ UNCHANGED <<adminDoc, ops, pc, request, run, inserted, response>>
    /\ UNCHANGED <<before, succeeded, chatVars>>
    /\ UNCHANGED <<callVars, hookVars>>

(***************************************************************************)
(* chat: query terms and the two searches                                  *)
(***************************************************************************)
ToLowerChar(c) ==
    IF IsUpperAZ(c)
    THEN At(LowerAZ, CHOOSE i \in 1..Len(UpperAZ) : At(UpperAZ, i) = c)
    ELSE c

\* String.prototype.toLowerCase
RECURSIVE ToLowerCase(_)
ToLowerCase(s) ==
    IF s = "" THEN "" ELSE ToLowerChar(At(s, 1)) \o ToLowerCase(Tail(s))

IsAlnum(c) == IsLowerAZ(c) \/ IsUpperAZ(c) \/ IsDigit(c)

\* The lexemes the text-search parser finds in s: the maximal runs of letters
\* and digits, lower-cased (stemming and stop words are not modelled:
\* ChatPool and Questions use no stop word longer than two characters and no
\* two different words with a common stem)
Lexemes(s) ==
    LET starts == {i \in 1..Len(s) : IsAlnum(At(s, i)) /\ ~IsAlnum(At(s, i - 1))}
        end(i) == CHOOSE j \in i..Len(s) :
                      /\ ~IsAlnum(At(s, j + 1))
                      /\ \A k \in i..j : IsAlnum(At(s, k))
    IN  {ToLowerCase(SubSeq(s, i, end(i))) : i \in starts}

\* question.toLowerCase().split(/\s+/).filter(term => term.length > 2).join(" & ")
SearchTerms(question) ==
    LET lower == ToLowerCase(question)
    IN  Join(LongerThan(SplitFrom(lower, WhitespaceMatch(lower), 1), 2), " & ")

MaxKeywords == 3

\* question.split(/\s+/).filter(w => w.length > 3).slice(0, 3)
Keywords(question) ==
    LET long == LongerThan(SplitFrom(question, WhitespaceMatch(question), 1), 3)
    IN  SubSeq(long, 1, Minimum(MaxKeywords, Len(long)))

\* A match on any one lexeme of the query (an OR query)
TextSearchMatchesAny(row, searchTerms) ==
    Lexemes(searchTerms) \cap Lexemes(row.content) # {}

\* content @@ websearch_to_tsquery(searchTerms): every lexeme of the query is a
\* lexeme of the content; a query without lexemes matches nothing
TextSearchMatches(row, searchTerms) ==
    /\ Lexemes(searchTerms) # {}
    /\ Lexemes(searchTerms) \subseteq Lexemes(row.content)

\* content ILIKE %k% : k occurs in content, letter case ignored
Ilike(content, k) ==
    LET c == ToLowerCase(content)
        w == ToLowerCase(k)
    IN  \E i \in 1..(Len(c) - Len(w) + 1) : SubSeq(c, i, i + Len(w) - 1) = w

\* .or(keywords.map(k => `content.ilike.%${k}%`).join(","))
IlikeMatches(row, keywords) ==
    \E n \in 1..Len(keywords) : Ilike(row.content, keywords[n])

limit == 5

\* The results a query without ORDER BY may return for the matching rows:
\* min(limit, number of matches) distinct rows, in any order
RECURSIVE Arrangements(_, _)
Arrangements(rows, len) ==
    IF len = 0 THEN {<<>>}
    ELSE UNION {{<<r>> \o q : q \in Arrangements(rows \ {r}, len - 1)} :
                   r \in rows}

\* A query without .limit(): every matching row, in any order
Unlimited(rows, n) == Arrangements(rows, Cardinality(rows))

Limited(rows, n) == Arrangements(rows, Minimum(n, Cardinality(rows)))

textSearch(searchTerms) ==
    Limited({r \in iso_chunks : TextSearchMatches(r, searchTerms)}, limit)

ilikeSearch(keywords) ==
    Limited({r \in iso_chunks : IlikeMatches(r, keywords)}, limit)

(***************************************************************************)
(* chat: context, sources and prompt                                       *)
(***************************************************************************)
\* Decimal representation of a natural number (template literal ${index + 1})
RECURSIVE NatToString(_)
NatToString(n) ==
    IF n < 10 THEN At("0123456789", n + 1)
    ELSE NatToString(n \div 10) \o At("0123456789", (n % 10) + 1)

\* x || fallback for a string x
OrElse(x, fallback) == IF x = "" THEN fallback ELSE x

\* chunk.iso_documents?.filename of the embedded document, "" when there is none
DocFilename(chunk) ==
    IF chunk.document_id \in DOMAIN iso_documents
    THEN iso_documents[chunk.document_id].filename ELSE ""

ContextHeader == "Contexte ISO pertinent:\n\n"

\* The text appended to context for the chunk at position index (0-based)
ContextBlock(chunk, index) ==
    "[Source " \o NatToString(index + 1) \o "] Document: "
    \o OrElse(DocFilename(chunk), "Unknown")
    \o ", Section: " \o OrElse(chunk.section, "N/A")
    \o ", Sous-section: " \o OrElse(chunk.subsection, "N/A") \o "\n"
    \o chunk.content \o "\n\n"

RECURSIVE ContextBlocks(_, _)
ContextBlocks(chunks, k) ==
    IF k > Len(chunks) THEN ""
    ELSE ContextBlock(chunks[k], k - 1) \o ContextBlocks(chunks, k + 1)

BuildContext(chunks) ==
    IF Len(chunks) > 0 THEN ContextHeader \o ContextBlocks(chunks, 1) ELSE ""

\* A sources list built in the opposite order of the context
BuildSourcesReversed(chunks) ==
    [k \in 1..Len(chunks) |->
        [document |-> OrElse(DocFilename(chunks[Len(chunks) + 1 - k]), "Document inconnu"),
         section |-> OrElse(chunks[Len(chunks) + 1 - k].section, "N/A"),
         subsection |-> OrElse(chunks[Len(chunks) + 1 - k].subsection, "N/A"),
         chunk_id |-> chunks[Len(chunks) + 1 - k].chunk_index,
         page |-> chunks[Len(chunks) + 1 - k].page_number]]

BuildSources(chunks) ==
    [k \in 1..Len(chunks) |->
        [document |-> OrElse(DocFilename(chunks[k]), "Document inconnu"),
         section |-> OrElse(chunks[k].section, "N/A"),
         subsection |-> OrElse(chunks[k].subsection, "N/A"),
         chunk_id |-> chunks[k].chunk_index,
         page |-> chunks[k].page_number]]

PromptRules == "Tu es un assistant expert en conformite ISO.\n\n"

NoDocumentNotice == "AUCUN DOCUMENT ISO N'A ETE TROUVE DANS LA BASE DE DONNEES."

\* A prompt without the notice for an empty context
systemPromptWithoutNotice(ctx) == PromptRules \o ctx

systemPrompt(ctx) == PromptRules \o OrElse(ctx, NoDocumentNotice)

\* sources.length > 0 ? sources : null
Null == [null |-> TRUE, list |-> <<>>]

\* A response that carries the sources list even when it is empty
SourcesAlways(src) == [null |-> FALSE, list |-> src]

SourcesOrNull(src) == IF Len(src) > 0 THEN [null |-> FALSE, list |-> src] ELSE Null

(***************************************************************************)
(* chat: the serve handler, one action per awaited call                    *)
(***************************************************************************)
ChatRespond(resp) ==
    /\ chatPc' = "done"
    /\ chatResponse' = resp

\* Read the request, check question and API key, issue the full-text search
ChatReceive(question, conversationId) ==
    /\ chatPc = "idle"
    /\ chatRequest' = [question |-> question, conversationId |-> conversationId]
    /\ IF question = ""
       THEN ChatRespond([status |-> 400, error |-> "Question is required"])
       ELSE IF ~apiKeySet
       THEN ChatRespond([status |-> 500,
                         error |-> "LOVABLE_API_KEY is not configured"])
       ELSE /\ chatPc' = "textSearch"
            /\ UNCHANGED chatResponse
    /\ UNCHANGED <<ingestVars, chat_messages, apiKeySet, tiers, relevantChunks,
                   context, sources, prompt, gatewayCalls, answer>>
    /\ UNCHANGED <<callVars, hookVars>>

\* A handler that answers 500 when the full-text search reports an error
TextSearchPropagates(searchError) ==
    /\ chatPc = "textSearch"
    /\ tiers' = Append(tiers, [tier |-> "textSearch", error |-> searchError])
    /\ \E chunks \in textSearch(SearchTerms(chatRequest.question)) :
          IF searchError
          THEN /\ relevantChunks' = <<>>
               /\ ChatRespond([status |-> 500, error |-> "search failed"])
          ELSE /\ relevantChunks' = chunks
               /\ chatPc' = IF Len(chunks) = 0
                                /\ Len(Keywords(chatRequest.question)) > 0
                            THEN "ilike" ELSE "generate"
               /\ UNCHANGED chatResponse
    /\ UNCHANGED <<ingestVars, chat_messages, apiKeySet, chatRequest, context,
                   sources, prompt, gatewayCalls, answer>>
    /\ UNCHANGED <<callVars, hookVars>>

\* The full-text search returns (chunks or searchError); the handler keeps
\* the chunks or falls back to the ILIKE search when there are keywords
TextSearchReturns(searchError) ==
    /\ chatPc = "textSearch"
    /\ tiers' = Append(tiers, [tier |-> "textSearch", error |-> searchError])
    /\ \E chunks \in textSearch(SearchTerms(chatRequest.question)) :
          IF ~searchError /\ Len(chunks) > 0
          THEN /\ relevantChunks' = chunks
               /\ chatPc' = "generate"
          ELSE /\ relevantChunks' = <<>>
               /\ chatPc' = IF Len(Keywords(chatRequest.question)) > 0
                            THEN "ilike" ELSE "generate"
    /\ UNCHANGED <<ingestVars, chat_messages, apiKeySet, chatRequest, context,
                   sources, prompt, gatewayCalls, answer, chatResponse>>
    /\ UNCHANGED <<callVars, hookVars>>

\* A fallback that removes the rows it returns from iso_chunks
IlikeReturnsConsuming(fallbackError) ==
    /\ chatPc = "ilike"
    /\ tiers' = Append(tiers, [tier |-> "ilike", error |-> fallbackError])
    /\ \E fallbackChunks \in ilikeSearch(Keywords(chatRequest.question)) :
          /\ relevantChunks' = IF fallbackError THEN <<>> ELSE fallbackChunks
          /\ iso_chunks' = iso_chunks \ {fallbackChunks[i] : i \in 1..Len(fallbackChunks)}
    /\ chatPc' = "generate"
    /\ UNCHANGED <<iso_documents, ops, pc, request, run, inserted, response,
                   before, succeeded, adminPc, adminDoc, toast>>
    /\ UNCHANGED <<chat_messages, apiKeySet, chatRequest, context,
                   sources, prompt, gatewayCalls, answer, chatResponse>>
    /\ UNCHANGED <<callVars, hookVars>>

\* The ILIKE search returns fallbackChunks (null on error)
IlikeReturns(fallbackError) ==
    /\ chatPc = "ilike"
    /\ tiers' = Append(tiers, [tier |-> "ilike", error |-> fallbackError])
    /\ \E fallbackChunks \in ilikeSearch(Keywords(chatRequest.question)) :
          relevantChunks' = IF fallbackError THEN <<>> ELSE fallbackChunks
    /\ chatPc' = "generate"
    /\ UNCHANGED <<ingestVars, chat_messages, apiKeySet, chatRequest, context,
                   sources, prompt, gatewayCalls, answer, chatResponse>>
    /\ UNCHANGED <<callVars, hookVars>>

GatewayOutcomes == {"ok", "no-choices", "429", "402", "other", "network"}

NoAnswer == "Impossible de generer une reponse."

Answer(outcome) == IF outcome = "ok" THEN "answer" ELSE NoAnswer

\* A handler that calls the gateway `calls` times and answers quotaStatus when
\* the gateway answers 402
GenerateAs(outcome, calls, quotaStatus) ==
    /\ chatPc = "generate"
    /\ context' = BuildContext(relevantChunks)
    /\ sources' = BuildSources(relevantChunks)
    /\ prompt' = systemPrompt(BuildContext(relevantChunks))
    /\ gatewayCalls' = gatewayCalls + calls
    /\ CASE outcome = "429" ->
              /\ ChatRespond([status |-> 429,
                               error |-> "Limite de requetes atteinte"])
              /\ UNCHANGED answer
         [] outcome = "402" ->
              /\ ChatRespond([status |-> quotaStatus,
                               error |-> "Credits insuffisants"])
              /\ UNCHANGED answer
         [] outcome \in {"other", "network"} ->
              /\ ChatRespond([status |-> 500, error |-> "Erreur du service IA"])
              /\ UNCHANGED answer
         [] OTHER ->
              /\ answer' = Answer(outcome)
              /\ IF chatRequest.conversationId # ""
                 THEN /\ chatPc' = "save"
                      /\ UNCHANGED chatResponse
                 ELSE ChatRespond([status |-> 200, answer |-> Answer(outcome),
                          sources |-> SourcesOrNull(BuildSources(relevantChunks))])
    /\ UNCHANGED <<ingestVars, chat_messages, apiKeySet, chatRequest, tiers,
                   relevantChunks>>
    /\ UNCHANGED <<callVars, hookVars>>

\* A handler that calls the gateway a second time after a failure
GenerateWithRetry(outcome) ==
    GenerateAs(outcome, IF outcome \in {"ok", "no-choices"} THEN 1 ELSE 2, 402)

\* A handler that reports an exhausted quota as a generic failure
GenerateGeneric(outcome) == GenerateAs(outcome, 1, 500)

\* Build context, sources and prompt, call the gateway once and handle its reply
Generate(outcome) ==
    /\ chatPc = "generate"
    /\ context' = BuildContext(relevantChunks)
    /\ sources' = BuildSources(relevantChunks)
    /\ prompt' = systemPrompt(BuildContext(relevantChunks))
    /\ gatewayCalls' = gatewayCalls + 1
    /\ CASE outcome = "429" ->
              /\ ChatRespond([status |-> 429,
                               error |-> "Limite de requetes atteinte"])
              /\ UNCHANGED answer
         [] outcome = "402" ->
              /\ ChatRespond([status |-> 402, error |-> "Credits insuffisants"])
              /\ UNCHANGED answer
         [] outcome = "other" ->
              /\ ChatRespond([status |-> 500, error |-> "Erreur du service IA"])
              /\ UNCHANGED answer
         [] outcome = "network" ->
              /\ ChatRespond([status |-> 500, error |-> "fetch failed"])
              /\ UNCHANGED answer
         [] OTHER ->
              /\ answer' = Answer(outcome)
              /\ IF chatRequest.conversationId # ""
                 THEN /\ chatPc' = "save"
                      /\ UNCHANGED chatResponse
                 ELSE ChatRespond([status |-> 200, answer |-> Answer(outcome),
                          sources |-> SourcesOrNull(BuildSources(relevantChunks))])
    /\ UNCHANGED <<ingestVars, chat_messages, apiKeySet, chatRequest, tiers,
                   relevantChunks>>
    /\ UNCHANGED <<callVars, hookVars>>

ConversationIds == {"conv1"}

\* A handler that stores the assistant message before the user message
SaveMessagesAssistantFirst(insertError) ==
    /\ chatPc = "save"
    /\ chat_messages' =
          IF insertError \/ chatRequest.conversationId \notin ConversationIds
          THEN chat_messages
          ELSE chat_messages \o
               << [conversation_id |-> chatRequest.conversationId,
                   role |-> "assistant", content |-> answer,
                   sources |-> SourcesOrNull(sources)],
                  [conversation_id |-> chatRequest.conversationId,
                   role |-> "user", content |-> chatRequest.question,
                   sources |-> Null] >>
    /\ ChatRespond([status |-> 200, answer |-> answer,
                    sources |-> SourcesOrNull(sources)])
    /\ UNCHANGED <<ingestVars, apiKeySet, chatRequest, tiers, relevantChunks,
                   context, sources, prompt, gatewayCalls, answer>>
    /\ UNCHANGED <<callVars, hookVars>>

\* Save the two messages (the insert's result is not inspected) and answer
SaveMessages(insertError) ==
    /\ chatPc = "save"
    /\ chat_messages' =
          IF insertError \/ chatRequest.conversationId \notin ConversationIds
          THEN chat_messages
          ELSE chat_messages \o
               << [conversation_id |-> chatRequest.conversationId,
                   role |-> "user", content |-> chatRequest.question,
                   sources |-> Null],
                  [conversation_id |-> chatRequest.conversationId,
                   role |-> "assistant", content |-> answer,
                   sources |-> SourcesOrNull(sources)] >>
    /\ ChatRespond([status |-> 200, answer |-> answer,
                    sources |-> SourcesOrNull(sources)])
    /\ UNCHANGED <<ingestVars, apiKeySet, chatRequest, tiers, relevantChunks,
                   context, sources, prompt, gatewayCalls, answer>>
    /\ UNCHANGED <<callVars, hookVars>>

(***************************************************************************)
(* Specifications                                                          *)
(***************************************************************************)
ChatIdle ==
    /\ chat_messages = <<>>
    /\ chatPc = "idle"
    /\ chatRequest = [question |-> "", conversationId |-> ""]
    /\ tiers = <<>>
    /\ relevantChunks = <<>>
    /\ context = ""
    /\ sources = <<>>
    /\ prompt = ""
    /\ gatewayCalls = 0
    /\ answer = ""
    /\ chatResponse = NoResponse

\* Ingestion and administration, starting from an empty corpus
Init ==
    /\ IngestInit
    /\ apiKeySet = TRUE
    /\ ChatIdle
    /\ NoCalls
    /\ HookIdle

Next ==
    \/ \E h \in Handlers, d \in DocIds, f \in FilePaths : Invoke(h, d, f)
    \/ \E h \in Handlers, e \in BOOLEAN : Download(h, e)
    \/ \E h \in Handlers, e \in BOOLEAN : DeleteExisting(h, e)
    \/ \E h \in Handlers, e \in BOOLEAN : InsertBatch(h, e)
    \/ \E h \in Handlers, e \in BOOLEAN : MarkProcessed(h, e)
    \/ \E d \in DocIds, f \in FilePaths, h \in Handlers, e1, e2 \in BOOLEAN :
          handleFileUpload(d, f, h, e1, e2)
    \/ \E d \in DocIds, e \in BOOLEAN : DeleteChunks(d, e)
    \/ \E e \in BOOLEAN : DeleteDocumentRecord(e)

Spec == Init /\ [][Next]_vars

\* The rows a chat request may find in iso_chunks
ChatPool ==
    { [id |-> <<1, 0>>, document_id |-> "d1", chunk_index |-> 0, section |-> "4",
       subsection |-> "4.1", page_number |-> 1,
       content |-> "La qualite est suivie."],
      [id |-> <<1, 1>>, document_id |-> "d1", chunk_index |-> 1, section |-> "4",
       subsection |-> "4.2", page_number |-> 1,
       content |-> "La norme iso fixe la qualite."],
      [id |-> <<1, 2>>, document_id |-> "d1", chunk_index |-> 2, section |-> "5",
       subsection |-> "5", page_number |-> 2,
       content |-> "Qualite de la norme iso."],
      [id |-> <<2, 0>>, document_id |-> "d2", chunk_index |-> 0, section |-> "1",
       subsection |-> "", page_number |-> 1,
       content |-> "Audit interne de la qualite."],
      [id |-> <<2, 1>>, document_id |-> "d2", chunk_index |-> 1, section |-> "1",
       subsection |-> "", page_number |-> 2,
       content |-> "La direction revoit la qualite."],
      [id |-> <<2, 2>>, document_id |-> "d2", chunk_index |-> 2, section |-> "9",
       subsection |-> "9.2", page_number |-> 3,
       content |-> "Un audit iso verifie la qualite."] }

\* Small corpora, and the corpora with more than limit rows
SmallStore == 2

ChatStores ==
    {S \in SUBSET ChatPool :
        Cardinality(S) <= SmallStore \/ Cardinality(S) > limit}

Questions ==
    { "", "qualite", "Qualite Gestion", "norme iso", "iso audit", "la de",
      "direction audit interne norme qualite" }

\* A chat request against any corpus drawn from ChatPool
ChatInit ==
    /\ iso_documents = [d \in DocIds |-> [filename |-> d \o ".pdf",
                                          processed |-> TRUE]]
    /\ iso_chunks \in ChatStores
    /\ ops = 0
    /\ pc = [h \in Handlers |-> "idle"]
    /\ request = [h \in Handlers |-> NoRequest]
    /\ run = [h \in Handlers |-> 0]
    /\ inserted = [h \in Handlers |-> 0]
    /\ response = [h \in Handlers |-> NoResponse]
    /\ before = [h \in Handlers |-> {}]
    /\ succeeded = {}
    /\ adminPc = "idle"
    /\ adminDoc = ""
    /\ toast = NoToast
    /\ apiKeySet \in BOOLEAN
    /\ ChatIdle
    /\ NoCalls
    /\ HookIdle

ChatNext ==
    \/ \E q \in Questions, c \in ConversationIds \cup {""} :
          ChatReceive(q, c)
    \/ \E e \in BOOLEAN : TextSearchReturns(e)
    \/ \E e \in BOOLEAN : IlikeReturns(e)
    \/ \E o \in GatewayOutcomes : Generate(o)
    \/ \E e \in BOOLEAN : SaveMessages(e)

ChatSpec == ChatInit /\ [][ChatNext]_vars

(***************************************************************************)
(* Properties of ingestion and deletion (specification Spec)               *)
(***************************************************************************)
\* A row of iso_chunks without its generated id: the chunk it stores
Strip(r) ==
    [document_id |-> r.document_id, chunk_index |-> r.chunk_index,
     content |-> r.content, section |-> r.section, subsection |-> r.subsection,
     page_number |-> r.page_number]

\* The rows inserted by the current invocation of handler h
NewRows(h) == {r \in iso_chunks : r.id[1] = run[h]}

Failed(h) == pc[h] = "done" /\ response[h].status = 500

\* The step in which handler h returns its success response
Succeeds(h) == pc[h] = "insert" /\ pc'[h] = "done" /\ response'[h].status = 200

\* C1: when process-document fails for a document, no chunk of the new set is
\* visible in iso_chunks and every chunk the document had before the call is
\* still present.
C1_FailureAbortsWholesale ==
    \A h \in Handlers :
        Failed(h) => NewRows(h) = {} /\ before[h] \subseteq iso_chunks

\* iso_chunks holds for the document of handler h exactly the chunk list of h,
\* each chunk once, all inserted by the current invocation of h
HoldsExactlyChunksOf(h) ==
    LET rows == ChunksOf(request[h].documentId)
    IN  /\ {Strip(r) : r \in rows} = {allChunks(h)[k] : k \in 1..Len(allChunks(h))}
        /\ Cardinality(rows) = Len(allChunks(h))
        /\ \A r \in rows : r.id[1] = run[h]

\* C2: whenever process-document reports success again for a document and a
\* content it already succeeded on, iso_chunks holds for that document exactly
\* the chunk set of that run, each chunk once, and no chunk of an earlier run.
C2_ReingestionIdempotent ==
    [][\A h \in Handlers :
          (Succeeds(h)
             /\ <<request[h].documentId, request[h].filePath>> \in succeeded)
          => HoldsExactlyChunksOf(h)']_vars

\* Handler h has deleted the old chunks and not yet inserted its last batch
Replacing(h) == pc[h] = "insert" /\ inserted[h] < Len(allChunks(h))

\* Handler h performs its delete or one of its inserts in this step
DeletesOrInserts(h) ==
    \/ pc[h] = "delete" /\ pc'[h] = "insert"
    \/ pc[h] = "insert" /\ inserted'[h] # inserted[h]

\* C3: two process-document invocations with the same documentId never
\* interleave their delete and insert steps.
C3_SameDocumentSerialized ==
    [][\A h1, h2 \in Handlers :
          (h1 # h2 /\ request[h1].documentId = request[h2].documentId
             /\ Replacing(h1))
          => ~DeletesOrInserts(h2)]_vars

\* Every chunk of the chunk list of <<d, f>> is stored for document d
CompleteChunkSet(d, f) ==
    \A k \in 1..Len(AllChunksOf[d][f]) :
        \E r \in ChunksOf(d) : Strip(r) = AllChunksOf[d][f][k]

\* C4: in every reachable state a document with processed = true has the
\* complete chunk set of a successful process-document run stored.
C4_ProcessedHasCompleteChunks ==
    \A d \in DOMAIN iso_documents :
        iso_documents[d].processed
        => \E f \in FilePaths : <<d, f>> \in succeeded /\ CompleteChunkSet(d, f)

\* C5: after process-document succeeds for a document with N chunks (and no
\* deleteDocument was issued for it), the chunk_index values stored for it are
\* exactly 0 .. N-1, none twice, numbered in document order across sections.
C5_OrdinalsDenseWhenStored ==
    [][\A h \in Handlers :
          (Succeeds(h) /\ adminDoc # request[h].documentId)
          => LET rows == ChunksOf(request[h].documentId)'
                 N == Len(allChunks(h))
             IN  /\ {r.chunk_index : r \in rows} = 0..(N - 1)
                 /\ Cardinality(rows) = N
                 /\ \A k \in 1..N : allChunks(h)[k].chunk_index = k - 1]_vars

\* The step in which deleteDocument reports "Document supprime"
DeleteCompletes == adminPc = "document" /\ adminPc' = "idle" /\ toast' = "deleted"

\* C6: after deleteDocument completes for a document no row of iso_chunks
\* references it, and no chunk ever references a document that does not exist.
C6_DeleteLeavesNoChunks ==
    /\ [](\A r \in iso_chunks : r.document_id \in DOMAIN iso_documents)
    /\ [][DeleteCompletes => ChunksOf(adminDoc)' = {}]_vars

\* The minimum number of characters of extracted text the claim speaks of
ExtractionThreshold == 50

ExtractionError == ErrorResponse("Could not extract meaningful text")

\* Handler h serves a request whose file yields less text than the threshold
ShortText(h) ==
    /\ pc[h] # "idle"
    /\ Len(ExtractedTextOf[request[h].filePath]) < ExtractionThreshold

\* Handler h gets past the download of a file with too little text
RejectsShortText(h) ==
    /\ pc[h] = "download" /\ pc'[h] # "download" /\ ShortText(h)
    /\ response'[h] # ErrorResponse("Failed to download file")

QueryWords(q) ==
    LET parts == SplitFrom(q, WhitespaceMatch(q), 1)
    IN  {parts[i] : i \in 1..Len(parts)} \ {""}

Elements(seq) == {seq[i] : i \in 1..Len(seq)}

\* seq lists distinct rows of S, as many as S has up to cap
ResultsOf(seq, S, cap) ==
    /\ Elements(seq) \subseteq S
    /\ Cardinality(Elements(seq)) = Len(seq)
    /\ Len(seq) = Minimum(cap, Cardinality(S))

\* Retrieval is over and no tier reported an error
Retrieved == chatPc = "generate" /\ \A i \in 1..Len(tiers) : ~tiers[i].error

FullTextOnly == <<[tier |-> "textSearch", error |-> FALSE]>>

WithSubstringTier ==
    <<[tier |-> "textSearch", error |-> FALSE], [tier |-> "ilike", error |-> FALSE]>>

\* The number of results top_k the claims speak of
TopK == 5

SourceBlocks(ctx) ==
    Cardinality({i \in 1..(Len(ctx) - 7) : SubSeq(ctx, i, i + 7) = "[Source "})

\* C10: the chunks retrieved by the chat handler, the sources list and the
\* [Source i] blocks of the context number at most top_k (5), whichever tier
\* produced them.
C10_AtMostTopK ==
    /\ Len(relevantChunks) <= TopK
    /\ Len(sources) <= TopK
    /\ SourceBlocks(context) <= TopK
    /\ chatPc \in {"save", "done"} /\ gatewayCalls = 1
       => /\ Len(sources) = Len(relevantChunks)
          /\ SourceBlocks(context) = Len(relevantChunks)

\* Six chunks matched and five were retrieved, listed and put in the context
C10_Witness ==
    /\ chatPc = "done" /\ Cardinality(iso_chunks) > TopK
    /\ Len(relevantChunks) = TopK /\ Len(sources) = TopK
    /\ SourceBlocks(context) = TopK

\* sub occurs in s
Contains(s, sub) ==
    \E i \in 1..(Len(s) - Len(sub) + 1) : SubSeq(s, i, i + Len(sub) - 1) = sub

\* s ends with sub
EndsWith(s, sub) ==
    Len(sub) <= Len(s) /\ SubSeq(s, Len(s) - Len(sub) + 1, Len(s)) = sub

\* The request passed its checks, retrieval ran and found nothing
RetrievedNothing == tiers # <<>> /\ chatPc # "textSearch" /\ relevantChunks = <<>>

NoDocumentInstruction == "AUCUN DOCUMENT ISO N'A ETE TROUVE"

\* C12: whenever zero chunks were retrieved, the prompt sent to the generation
\* function contains the no-document-found instruction instead of any context;
\* whenever at least one chunk was retrieved, the prompt contains the context
\* and not that instruction.
C12_PromptNoticeIffEmptyContext ==
    gatewayCalls = 1 =>
        IF relevantChunks = <<>>
        THEN /\ Contains(prompt, NoDocumentInstruction)
             /\ ~Contains(prompt, "[Source ")
             /\ context = ""
        ELSE /\ context # "" /\ EndsWith(prompt, context)
             /\ Contains(context, relevantChunks[1].content)
             /\ ~Contains(prompt, NoDocumentInstruction)

\* The gateway was called with the notice in the prompt
C12_Witness ==
    /\ gatewayCalls = 1 /\ relevantChunks = <<>>
    /\ Contains(prompt, NoDocumentInstruction)

\* The block of the context that sources entry i (1-based) describes, for the
\* stored chunk r
TaggedBlock(i, r) ==
    "[Source " \o NatToString(i) \o "] Document: " \o sources[i].document
    \o ", Section: " \o sources[i].section
    \o ", Sous-section: " \o sources[i].subsection \o "\n" \o r.content \o "\n\n"

\* The blocks of entries i .. Len(sources), one after the other
RECURSIVE TaggedBlocks(_)
TaggedBlocks(i) ==
    IF i > Len(sources) THEN ""
    ELSE TaggedBlock(i, relevantChunks[i]) \o TaggedBlocks(i + 1)

\* Sources entry i names the stored chunk r
Names(i, r) ==
    /\ r.document_id \in DOMAIN iso_documents
    /\ sources[i].document = iso_documents[r.document_id].filename
    /\ sources[i].chunk_id = r.chunk_index
    /\ sources[i].page = r.page_number
    /\ sources[i].section = (IF r.section = "" THEN "N/A" ELSE r.section)
    /\ sources[i].subsection = (IF r.subsection = "" THEN "N/A" ELSE r.subsection)

\* C13: the sources list is parallel to the context: one entry per chunk of
\* the context, in the same order, and entry i carries the document, section,
\* subsection, chunk_index and page of the chunk tagged [Source i].
C13_SourcesParallelToContext ==
    gatewayCalls = 1 =>
        /\ Len(sources) = Len(relevantChunks)
        /\ \A i \in 1..Len(sources) : Names(i, relevantChunks[i])
        /\ sources # <<>>
              => context = "Contexte ISO pertinent:\n\n" \o TaggedBlocks(1)
        /\ chatPc = "done" /\ chatResponse.status = 200 /\ sources # <<>>
              => chatResponse.sources = [null |-> FALSE, list |-> sources]

\* A response with three or more sources from two documents
C13_Witness ==
    /\ chatPc = "done" /\ chatResponse.status = 200 /\ Len(sources) >= 3
    /\ \E i, j \in 1..Len(sources) : sources[i].document # sources[j].document
    /\ chatResponse.sources.list = sources

\* A maximum total length of the context, in characters (the handler defines
\* none; any value is exceeded once the retrieved chunks are long enough)
ContextBudget == 256

\* C14: the assembled context never exceeds a maximum total length: retrieved
\* chunks that do not fit are dropped whole from the tail, and every chunk that
\* is included appears with its full content.
C14_ContextWithinBudget ==
    gatewayCalls = 1 =>
        /\ Len(context) <= ContextBudget
        /\ \E n \in 0..Len(relevantChunks) :
              /\ Len(sources) = n
              /\ \A i \in 1..n : Contains(context, relevantChunks[i].content)

\* C15: for every chat request that passes the question and API-key checks the
\* generation function is invoked exactly once, also after a 429, 402 or other
\* failure; it is invoked zero times when the question is missing.
C15_GenerationInvokedOnce ==
    /\ chatPc \in {"idle", "textSearch", "ilike", "generate"} => gatewayCalls = 0
    /\ chatPc = "save" => gatewayCalls = 1
    /\ chatPc = "done" =>
          gatewayCalls = (IF chatRequest.question = "" \/ ~apiKeySet THEN 0 ELSE 1)
    /\ (chatPc = "done" /\ chatResponse.status = 400) =>
          chatRequest.question = "" /\ gatewayCalls = 0

\* A request refused by the gateway with 429, after one call
C15_Witness ==
    chatPc = "done" /\ chatResponse.status = 429 /\ gatewayCalls = 1

\* The handler answers with an error in this step of the generation
GenerationFails ==
    chatPc = "generate" /\ chatPc' = "done" /\ chatResponse'.status # 200

\* C16: a 429 from the gateway yields a 429 response, a 402 yields a 402
\* response, any other non-success yields a 500 response; in none of these
\* cases is an answer or a chat_messages row produced.
C16_GatewayErrorsDistinguished ==
    [][/\ Generate("429") => GenerationFails /\ chatResponse'.status = 429
       /\ Generate("402") => GenerationFails /\ chatResponse'.status = 402
       /\ Generate("other") => GenerationFails /\ chatResponse'.status = 500
       /\ Generate("network") => GenerationFails /\ chatResponse'.status = 500
       /\ GenerationFails
          => /\ answer' = "" /\ chat_messages' = <<>>
             /\ DOMAIN chatResponse' = {"status", "error"}
             /\ chatResponse'.status \in {429, 402, 500}]_vars

\* A request with a conversation refused with 402: no message was saved
C16_Witness ==
    /\ chatPc = "done" /\ chatResponse.status = 402
    /\ chatRequest.conversationId # "" /\ chat_messages = <<>> /\ answer = ""

C18_RetrievalDeterministic ==
    [][(chatPc \in {"textSearch", "ilike"} /\ chatPc' # chatPc
          /\ ~tiers'[Len(tiers')].error)
       => \A chunks \in (IF chatPc = "textSearch"
                         THEN textSearch(SearchTerms(chatRequest.question))
                         ELSE ilikeSearch(Keywords(chatRequest.question))) :
             relevantChunks' = chunks]_vars

(***************************************************************************)
(* chunkText called on its own                                             *)
(***************************************************************************)
\* The sentences the texts are made of: 3, 3, 10 and 18 characters with a
\* terminator, and one without
ChunkSentences == {"Un.", "Ok?", "Deux mots.", "Trois petits mots!", "fin"}

MaxSentences == 3

RECURSIVE SentenceLists(_)
SentenceLists(n) ==
    IF n = 0 THEN {<<>>}
    ELSE SentenceLists(n - 1)
         \cup {Append(l, x) : l \in {q \in SentenceLists(n - 1) : Len(q) = n - 1},
                              x \in ChunkSentences}

\* Texts with blanks at the ends and with longer separators; a blank text
PaddedTexts ==
    { " Un. Ok?", "Un.  Deux mots.\nfin ", "Trois petits mots! \n", " Ok?\tfin",
      " " }

\* The text argument: sentences separated by one space, as in section.content
\* for the call at line 194, and the padded texts
ChunkTexts == {Join(l, " ") : l \in SentenceLists(MaxSentences)} \cup PaddedTexts

ChunkSizes == {6, 10, 20}

ChunkTextInit ==
    /\ IngestInit
    /\ apiKeySet = TRUE
    /\ ChatIdle
    /\ call \in [fn : {"chunkText"}, text : ChunkTexts, maxChunkSize : ChunkSizes]
    /\ result = NoResult
    /\ HookIdle

ChunkTextReturns ==
    /\ call.fn = "chunkText"
    /\ ~result.returned
    /\ result' = [returned |-> TRUE,
                  value |-> chunkText(call.text, call.maxChunkSize)]
    /\ UNCHANGED <<call, ingestVars, chatVars, hookVars>>

ChunkTextNext == ChunkTextReturns

ChunkTextSpec == ChunkTextInit /\ [][ChunkTextNext]_vars

(***************************************************************************)
(* Properties of chunkText (specification ChunkTextSpec)                   *)
(***************************************************************************)
\* The sentences of a chunk
SentencesOf(chunk) == SplitFrom(chunk, SentenceSeparator(chunk), 1)

\* C19: every chunk returned by chunkText except the last has a length between
\* the minimum (at least one character) and maxChunkSize inclusive, the only
\* exception to the upper bound being a chunk that consists of a single
\* sentence which alone exceeds maxChunkSize.
C19_ChunkSizeBound ==
    result.returned =>
        \A k \in 1..(Len(result.value) - 1) :
            LET chunk == result.value[k]
            IN  /\ Len(chunk) >= 1
                /\ \/ Len(chunk) <= call.maxChunkSize
                   \/ Len(SentencesOf(chunk)) = 1

\* C20: when chunkText closes a chunk and opens the next one, the next chunk
\* begins with trailing sentences of the chunk just closed: two consecutive
\* chunks share at least one sentence.
C20_ConsecutiveChunksOverlap ==
    result.returned =>
        \A k \in 1..(Len(result.value) - 1) :
            LET closed == SentencesOf(result.value[k])
                next == SentencesOf(result.value[k + 1])
            IN  \E m \in 1..Minimum(Len(closed), Len(next)) :
                    SubSeq(closed, Len(closed) - m + 1, Len(closed))
                      = SubSeq(next, 1, m)

(***************************************************************************)
(* extractSections and the chunk list of the serve handler on their own    *)
(***************************************************************************)
\* The lines the short texts are made of: the two-heading text of the file
\* iso, headings alone, a line without a heading, and a blank line
SectionLines ==
    { FileContent.iso,
      "4.1 Scope",
      "4.2 Exclusions",
      "5 Leadership",
      "Avant-propos general.",
      "" }

MaxLines == 3

RECURSIVE LineLists(_)
LineLists(n) ==
    IF n = 0 THEN {<<>>}
    ELSE LineLists(n - 1)
         \cup {Append(l, x) : l \in {q \in LineLists(n - 1) : Len(q) = n - 1},
                              x \in SectionLines}

\* Texts of more than one page: a section of 3000 characters, after a line
\* without a heading and before another section
PagedTexts ==
    { "Avant-propos general.\n7 Support\n" \o Repeat(Sentence100, 30),
      "7 Support\n" \o Repeat(Sentence100, 30)
        \o "\n8 Realisation\nLes activites sont planifiees." }

\* extractedText for the call at line 177: lines separated by a newline
SectionTexts == {Join(l, "\n") : l \in LineLists(MaxLines)} \cup PagedTexts

SectionsInit ==
    /\ IngestInit
    /\ apiKeySet = TRUE
    /\ ChatIdle
    /\ call \in [fn : {"extractSections", "allChunks"}, text : SectionTexts]
    /\ result = NoResult
    /\ HookIdle

\* const sections = extractSections(extractedText)
ExtractSectionsReturns ==
    /\ call.fn = "extractSections"
    /\ ~result.returned
    /\ result' = [returned |-> TRUE, value |-> extractSections(call.text)]
    /\ UNCHANGED <<call, ingestVars, chatVars, hookVars>>

\* The serve handler from the sections to the chunk list allChunks
AllChunksBuilt ==
    /\ call.fn = "allChunks"
    /\ ~result.returned
    /\ result' = [returned |-> TRUE, value |-> BuildAllChunks("d1", call.text)]
    /\ UNCHANGED <<call, ingestVars, chatVars, hookVars>>

SectionsNext == ExtractSectionsReturns \/ AllChunksBuilt

SectionsSpec == SectionsInit /\ [][SectionsNext]_vars

(***************************************************************************)
(* Properties of the sections and of the chunk list (SectionsSpec)         *)
(***************************************************************************)
LinesOf(text) == SplitFrom(text, LineSeparator(text), 1)

\* The lines that start with a section number
HeadingLines(text) ==
    {k \in 1..Len(LinesOf(text)) : sectionMatch(LinesOf(text)[k]) # ""}

\* The lines before the first heading; every line when there is no heading
PreambleLines(text) ==
    {j \in 1..Len(LinesOf(text)) : \A k \in HeadingLines(text) : j < k}

\* The text before the first heading, its lines separated by a space
Preamble(text) ==
    Trim(Join(SubSeq(LinesOf(text), 1, Cardinality(PreambleLines(text))), " "))

C22_HeadingsStartSections ==
    result.returned /\ call.fn = "allChunks" =>
        /\ \A k \in 1..Len(result.value) :
              result.value[k].subsection # ""
                  => result.value[k].section = result.value[k].subsection
        /\ call.text = FileContent.iso =>
              /\ Len(result.value) = 2
              /\ result.value[1].section = "4.1"
              /\ result.value[1].chunk_index = 0
              /\ result.value[2].section = "4.2"
              /\ result.value[2].chunk_index = 1

\* The number written by a string of decimal digits
RECURSIVE ParseNat(_)
ParseNat(digits) ==
    IF digits = "" THEN 0
    ELSE 10 * ParseNat(SubSeq(digits, 1, Len(digits) - 1))
         + ((CHOOSE i \in 1..10 : At("0123456789", i) = At(digits, Len(digits))) - 1)

\* The components of a dotted label, as numbers: "8.2.3" is <<8, 2, 3>>
LabelNumbers(label) ==
    LET parts == SplitFrom(label, [i \in 1..Len(label) |->
                                      IF At(label, i) = "." THEN 1 ELSE 0], 1)
    IN  [k \in 1..Len(parts) |-> ParseNat(parts[k])]

\* Order of labels in a document: component by component, a prefix first
RECURSIVE LabelLeq(_, _)
LabelLeq(a, b) ==
    IF a = <<>> THEN TRUE
    ELSE IF b = <<>> THEN FALSE
    ELSE IF Head(a) # Head(b) THEN Head(a) < Head(b)
    ELSE LabelLeq(Tail(a), Tail(b))

\* The label of a section or chunk: the dotted label of its heading, and the
\* section label "1" of the implicit section
LabelOf(x) == IF x.subsection = "" THEN x.section ELSE x.subsection

\* C23: the labels of the sections returned by extractSections, and of the
\* chunks in ordinal order, are non-decreasing in document order, except
\* where a new top-level section begins (the top-level number changes or the
\* heading is a top-level heading).
C23_LabelsNonDecreasing ==
    result.returned /\ call.fn \in {"extractSections", "allChunks"} =>
        \A k \in 1..(Len(result.value) - 1) :
            LET a == result.value[k]
                b == result.value[k + 1]
            IN  \/ b.section # a.section
                \/ b.subsection = b.section
                \/ LabelLeq(LabelNumbers(LabelOf(a)), LabelNumbers(LabelOf(b)))

\* C24: the page estimate is monotonic: in the chunk list of a text the
\* chunks are in chunk_index order, their page_number never decreases from
\* one chunk to the next, and every page_number is at least 1.
C24_PageEstimateMonotonic ==
    result.returned /\ call.fn = "allChunks" =>
        /\ \A k \in 1..Len(result.value) :
              /\ result.value[k].chunk_index = k - 1
              /\ result.value[k].page_number >= 1
        /\ \A k \in 1..(Len(result.value) - 1) :
              result.value[k].page_number <= result.value[k + 1].page_number

C24_Witness ==
    /\ result.returned
    /\ call.fn = "allChunks"
    /\ \E k \in 1..(Len(result.value) - 1) :
          /\ result.value[k].page_number = 1
          /\ result.value[k + 1].page_number = 2

(***************************************************************************)
(* Properties of the Admin page's deleteDocument (specification Spec)      *)
(***************************************************************************)
\* C25: when deleteDocument reports success for a document, the document's
\* row of iso_documents no longer exists; deleteDocument never ends with the
\* document's chunks removed and its row still listed as processed.
C25_DeleteRemovesDocumentRow ==
    [][DeleteCompletes =>
          /\ adminDoc \notin DOMAIN iso_documents'
          /\ ~(/\ adminDoc \in DOMAIN iso_documents'
               /\ iso_documents'[adminDoc].processed
               /\ ChunksOf(adminDoc)' = {})]_vars

(***************************************************************************)
(* The chat page's hook useChat: sendMessage and newChat                   *)
(***************************************************************************)
\* The questions typed: one shorter and one longer than a title
Contents ==
    { "Quelle norme ?",
      "Quelles sont les exigences de la norme pour la revue de direction ?" }

TitleLength == 50

\* content.slice(0, 50) + (content.length > 50 ? "..." : "")
Title(content) ==
    IF Len(content) > TitleLength
    THEN SubSeq(content, 1, TitleLength) \o "..."
    ELSE content

\* What the fetch of http://localhost:8000/ask can give: a response that is
\* not OK, a body with an answer, with an empty answer or with an error
\* field, or a rejected promise
BackendResponses ==
    { [rejects |-> FALSE, ok |-> TRUE, status |-> 200, answer |-> "Reponse.",
       sources |-> <<"ISO 9001">>, error |-> ""],
      [rejects |-> FALSE, ok |-> TRUE, status |-> 200, answer |-> "",
       sources |-> <<>>, error |-> ""],
      [rejects |-> FALSE, ok |-> TRUE, status |-> 200, answer |-> "",
       sources |-> <<>>, error |-> "Moteur indisponible"],
      [rejects |-> FALSE, ok |-> FALSE, status |-> 500, answer |-> "",
       sources |-> <<>>, error |-> ""],
      [rejects |-> TRUE, ok |-> FALSE, status |-> 0, answer |-> "",
       sources |-> <<>>, error |-> ""] }

NoAnswerNotice == "Desole, je n'ai pas pu generer de reponse."

ConnectionErrorNotice == "Erreur de connexion. Assurez-vous que le terminal noir est bien lance."

\* The message of the error thrown in the try block, "" when nothing is thrown
ThrownMessage(r) ==
    IF r.rejects THEN "Failed to fetch"
    ELSE IF ~r.ok
    THEN "Erreur de connexion au serveur Python (Status: "
         \o NatToString(r.status) \o ")"
    ELSE r.error

\* The number of the invocation stands for Date.now() in the message ids
UserMessage(i, content) ==
    [id |-> <<"user", i>>, role |-> "user", content |-> content, sources |-> <<>>]

AssistantMessage(i, r) ==
    [id |-> <<"assistant", i>>, role |-> "assistant",
     content |-> OrElse(r.answer, NoAnswerNotice), sources |-> r.sources]

ErrorMessage(i) ==
    [id |-> <<"error", i>>, role |-> "assistant",
     content |-> ConnectionErrorNotice, sources |-> <<>>]

\* sendMessage up to its first await: lines 33-38, and lines 57-70 when the
\* closure's conversationId is set
sendMessage(i, content) ==
    /\ sends[i].pc = "idle"
    /\ \A j \in SendIds : j < i => sends[j].pc # "idle"
    /\ sends' = [sends EXCEPT ![i] =
                    [pc |-> IF useChat.conversationId = null
                            THEN "insert" ELSE "fetch",
                     content |-> content,
                     convId |-> useChat.conversationId,
                     session |-> session,
                     created |-> FALSE,
                     outcome |-> "none"]]
    /\ useChat' = [useChat EXCEPT
                      !.isLoading = TRUE,
                      !.error = null,
                      !.messages = IF useChat.conversationId = null THEN @
                                   ELSE Append(@, UserMessage(i, content))]
    /\ UNCHANGED <<chat_conversations, session>>
    /\ UNCHANGED <<ingestVars, chatVars, callVars>>

\* The insert into chat_conversations settles (lines 41-54), then lines 57-70
ConversationInsertReturns(i, convError, throws) ==
    /\ sends[i].pc = "insert"
    /\ LET newConv == [id |-> "c" \o NatToString(Len(chat_conversations) + 1),
                       title |-> Title(sends[i].content)]
           created == ~convError /\ ~throws
       IN  /\ chat_conversations' = IF created
                                    THEN Append(chat_conversations, newConv)
                                    ELSE chat_conversations
           /\ sends' = [sends EXCEPT
                           ![i].pc = "fetch",
                           ![i].created = created,
                           ![i].convId = IF created THEN newConv.id ELSE @]
           /\ useChat' = [useChat EXCEPT
                             !.conversationId = IF created THEN newConv.id ELSE @,
                             !.messages = Append(@, UserMessage(i, sends[i].content))]
    /\ UNCHANGED session
    /\ UNCHANGED <<ingestVars, chatVars, callVars>>

\* The fetch settles: lines 78-113
FetchReturns(i, r) ==
    /\ sends[i].pc = "fetch"
    /\ LET thrown == ThrownMessage(r)
       IN  /\ sends' = [sends EXCEPT
                           ![i].pc = "done",
                           ![i].outcome = IF thrown = "" THEN "answered"
                                          ELSE "failed"]
           /\ useChat' = [useChat EXCEPT
                             !.messages = Append(@, IF thrown = ""
                                                    THEN AssistantMessage(i, r)
                                                    ELSE ErrorMessage(i)),
                             !.error = IF thrown = "" THEN @ ELSE thrown,
                             !.isLoading = FALSE]
    /\ UNCHANGED <<chat_conversations, session>>
    /\ UNCHANGED <<ingestVars, chatVars, callVars>>

newChat ==
    /\ session < MaxNewChats
    /\ session' = session + 1
    /\ useChat' = [useChat EXCEPT !.messages = <<>>, !.conversationId = null,
                                  !.error = null]
    /\ UNCHANGED <<sends, chat_conversations>>
    /\ UNCHANGED <<ingestVars, chatVars, callVars>>

HookInit ==
    /\ IngestInit
    /\ apiKeySet = TRUE
    /\ ChatIdle
    /\ NoCalls
    /\ HookIdle

HookNext ==
    \/ \E i \in SendIds, c \in Contents : sendMessage(i, c)
    \/ \E i \in SendIds, e, t \in BOOLEAN : ConversationInsertReturns(i, e, t)
    \/ \E i \in SendIds, r \in BackendResponses : FetchReturns(i, r)
    \/ newChat

HookSpec == HookInit /\ [][HookNext]_vars

\* Every promise a sendMessage awaits settles
HookLiveSpec ==
    /\ HookSpec
    /\ \A i \in SendIds :
          /\ WF_vars(\E e, t \in BOOLEAN : ConversationInsertReturns(i, e, t))
          /\ WF_vars(\E r \in BackendResponses : FetchReturns(i, r))

(***************************************************************************)
(* Properties of useChat (specifications HookSpec and HookLiveSpec)        *)
(***************************************************************************)
LastMessage(hook) == hook.messages[Len(hook.messages)]

\* Invocation i shows its user message in this step
ShowsQuestion(i) == sends[i].pc # "fetch" /\ sends'[i].pc = "fetch"

\* Invocation i ends in this step
Completes(i) == sends[i].pc = "fetch" /\ sends'[i].pc = "done"

\* C26: every invocation of sendMessage, however the backend call ends,
\* appends exactly one user message and later exactly one assistant message
\* (the answer or the connection-error notice) to messages, and eventually
\* ends with isLoading set back to false; when it ends, error is null if the
\* send succeeded and non-null if it failed.
C26_SendMessageCompletes ==
    /\ [][\A i \in SendIds :
            /\ ShowsQuestion(i) =>
                  /\ useChat'.messages
                       = Append(useChat.messages, LastMessage(useChat'))
                  /\ LastMessage(useChat').role = "user"
                  /\ LastMessage(useChat').content = sends'[i].content
            /\ Completes(i) =>
                  /\ useChat'.messages
                       = Append(useChat.messages, LastMessage(useChat'))
                  /\ LastMessage(useChat').role = "assistant"
                  /\ (LastMessage(useChat').content = ConnectionErrorNotice)
                       <=> (sends'[i].outcome = "failed")
                  /\ useChat'.isLoading = FALSE
                  /\ sends'[i].outcome = "answered" => useChat'.error = null
                  /\ sends'[i].outcome = "failed" => useChat'.error # null
            /\ (~ShowsQuestion(i) /\ ~Completes(i) /\ sends'[i] # sends[i]
                  /\ sends[i].pc # "idle")
                  => useChat'.messages = useChat.messages]_vars
    /\ \A i \in SendIds : (sends[i].pc # "idle") ~> (sends[i].pc = "done")

\* The invocation of sendMessage a message of the list comes from
SenderOf(message) == message.id[2]

\* C27: newChat leaves messages empty, conversationId null and error null,
\* and the message list never holds a message of an invocation of
\* sendMessage that was started before the last newChat.
C27_NewChatResets ==
    /\ [][newChat => /\ useChat'.messages = <<>>
                     /\ useChat'.conversationId = null
                     /\ useChat'.error = null]_vars
    /\ [](\A k \in 1..Len(useChat.messages) :
             sends[SenderOf(useChat.messages[k])].session = session)

\* C28: at most one row of chat_conversations is created per chat session:
\* no two invocations started in the same session both create one, a row is
\* inserted only by an invocation that found conversationId null, and an
\* invocation whose insert failed still shows and sends its question.
C28_OneConversationPerSession ==
    /\ [](\A i, j \in SendIds :
             (i # j /\ sends[i].created /\ sends[j].created)
                 => sends[i].session # sends[j].session)
    /\ [][chat_conversations' # chat_conversations =>
             \E i \in SendIds : /\ sends[i].pc = "insert"
                                /\ sends[i].convId = null
                                /\ sends'[i].created]_vars
    /\ [][\A i \in SendIds :
             (sends[i].pc = "insert" /\ sends'[i] # sends[i]) =>
                 /\ sends'[i].pc = "fetch"
                 /\ LastMessage(useChat') = UserMessage(i, sends[i].content)]_vars

(***************************************************************************)
(* Properties of the chat handler's writes (specification ChatSpec)        *)
(***************************************************************************)
ErrorStatuses == {400, 402, 429, 500}

\* C29: the chat handler writes to chat_messages only when a conversationId
\* was supplied and only after the generation call succeeded; the write adds
\* the user message and the assistant message together, the user message
\* first, the assistant row carrying the sources of the response (null when
\* there are none); no row is written when the response is an error.
C29_MessagesSavedAfterGeneration ==
    /\ [][chat_messages' # chat_messages =>
             /\ chatRequest.conversationId # ""
             /\ gatewayCalls = 1
             /\ answer # ""
             /\ chatResponse'.status = 200
             /\ Len(chat_messages') = Len(chat_messages) + 2
             /\ SubSeq(chat_messages', 1, Len(chat_messages)) = chat_messages
             /\ LET user == chat_messages'[Len(chat_messages) + 1]
                    assistant == chat_messages'[Len(chat_messages) + 2]
                IN  /\ user.role = "user"
                    /\ user.content = chatRequest.question
                    /\ user.conversation_id = chatRequest.conversationId
                    /\ assistant.role = "assistant"
                    /\ assistant.content = chatResponse'.answer
                    /\ assistant.conversation_id = chatRequest.conversationId
                    /\ assistant.sources = chatResponse'.sources
                    /\ assistant.sources.null <=> (Len(sources) = 0)]_vars
    /\ [](chatResponse.status \in ErrorStatuses => chat_messages = <<>>)

C29_Witness ==
    /\ chatResponse.status = 200
    /\ Len(chat_messages) = 2
    /\ chat_messages[1].role = "user"
    /\ chat_messages[2].role = "assistant"
    /\ ~chat_messages[2].sources.null

(***************************************************************************)
(* chunkText as a partition (specification ChunkTextSpec)                  *)
(***************************************************************************)
\* The sentences of a list without the blanks around them, empty ones left out
RECURSIVE Trimmed(_)
Trimmed(parts) ==
    IF parts = <<>> THEN <<>>
    ELSE (IF Trim(Head(parts)) = "" THEN <<>> ELSE <<Trim(Head(parts))>>)
         \o Trimmed(Tail(parts))

\* The sentences of the chunks, chunk after chunk
RECURSIVE ChunksSentences(_)
ChunksSentences(chunks) ==
    IF chunks = <<>> THEN <<>>
    ELSE SentencesOf(Head(chunks)) \o ChunksSentences(Tail(chunks))

\* C30: chunkText loses and duplicates nothing: the sentences of the chunks
\* it returns, taken chunk after chunk, are the sentences of the text, each
\* once and in the original order, and no returned chunk is empty.
C30_ChunksPartitionSentences ==
    result.returned /\ call.fn = "chunkText" =>
        /\ ChunksSentences(result.value) = Trimmed(SentencesOf(call.text))
        /\ \A k \in 1..Len(result.value) : Trim(result.value[k]) # ""

C30_Witness ==
    /\ result.returned
    /\ call.fn = "chunkText"
    /\ Len(result.value) >= 2
    /\ \E k \in 1..Len(result.value) : Len(SentencesOf(result.value[k])) >= 2

====
